---- MODULE Spec2Model ----
(***************************************************************************)
(* Persistent FinTech dashboard (src/app.py): a Streamlit script that is   *)
(* executed top to bottom on every interaction of a browser session.       *)
(* Every script run reloads the account store from users.json              *)
(* (load_users), handles at most one pressed button (Login, Transfer       *)
(* Money, Approve Transfer, Reject Transfer) and, when balances changed,   *)
(* writes the whole store back (save_users).  st.session_state survives    *)
(* between the runs of one session; the module globals (USERS) do not.     *)
(***************************************************************************)
EXTENDS Integers, Sequences, FiniteSets, TLC

VARIABLES
    file,       \* users.json on disk: absent, empty, unparseable or JSON text
    USERS,      \* per session: the module global USERS of its latest script run
    session,    \* per session: st.session_state (logged_in, user, role)
    now,        \* the current 30-second time step of the wall clock
    pc,         \* per session: position of its script run (idle between runs)
    req,        \* per session: which save_users call is under way, and the page's message
    last        \* the latest completed whole script run: its operation, its
                \* outcome and what its page displays (history)

vars == <<file, USERS, session, now, pc, req, last>>

-----------------------------------------------------------------------------
(* Bounds of the model *)

\* the wall clock runs over the time steps 1..MaxTime
MaxTime == 2
\* pyotp.random_base32() draws one of NSeeds secrets
NSeeds == 3
\* size of the code space (10^6 six-digit codes in pyotp), scaled down
NCodes == 7

(* Program constants *)

MinAmount == 1
MaxAmount == 10000
ApproveLo == 5000
ApproveHi == 10000
ValidWindow == 1
Balance1 == 1500
Balance2 == 3200

Sessions == {"s1", "s2"}
Names == {"customer1", "customer2", "admin1"}
Seeds == 1..NSeeds
Codes == 0..(NCodes - 1)
\* an OTP text that is no 6-digit code (empty, too short, letters)
BadOtp == -1
OtpInputs == Codes \cup {BadOtp}
\* (username, password) pairs typed into the login form: each account with
\* its own password, with another account's password, and an unknown name
LoginInputs ==
    {<<"customer1", "secure123">>, <<"customer2", "wallet321">>,
     <<"admin1", "adminpass">>, <<"customer1", "wallet321">>,
     <<"mallory", "secure123">>}
\* st.number_input(min_value=1, max_value=10000, step=1): sampled values
TransferAmounts == {a \in {500, 1500, 2000, 10000} : MinAmount <= a /\ a <= MaxAmount}
\* random.randint(5000, 10000): sampled values
ApproveAmounts == {a \in {5000, 6000, 10000} : ApproveLo <= a /\ a <= ApproveHi}

EmptyMap == [u \in {} |-> 0]

-----------------------------------------------------------------------------
(* json.dump / json.load: numbers are written as decimal text *)

RECURSIVE Digits(_)
Digits(n) == IF n < 10 THEN <<n>> ELSE Append(Digits(n \div 10), n % 10)

IntToText(n) == [neg |-> n < 0, digits |-> Digits(IF n < 0 THEN -n ELSE n)]

RECURSIVE DigitsValue(_)
DigitsValue(d) ==
    IF Len(d) = 0 THEN 0
    ELSE 10 * DigitsValue(SubSeq(d, 1, Len(d) - 1)) + d[Len(d)]

TextToInt(t) == IF t.neg THEN -DigitsValue(t.digits) ELSE DigitsValue(t.digits)

JsonDumpEntry(r) ==
    IF "balance" \in DOMAIN r THEN [r EXCEPT !.balance = IntToText(@)] ELSE r

JsonLoadEntry(e) ==
    IF "balance" \in DOMAIN e THEN [e EXCEPT !.balance = TextToInt(@)] ELSE e

json_dump(users) == [u \in DOMAIN users |-> JsonDumpEntry(users[u])]

json_load(text) == [u \in DOMAIN text |-> JsonLoadEntry(text[u])]

\* the length of the written text: entries of equal names, passwords, roles
\* and secrets differ in length only by the digits of their balances
RECURSIVE TextLen(_, _)
TextLen(S, text) ==
    IF S = {} THEN 0
    ELSE LET u == CHOOSE x \in S : TRUE
         IN (IF "balance" \in DOMAIN text[u]
             THEN Len(text[u].balance.digits) + (IF text[u].balance.neg THEN 1 ELSE 0)
             ELSE 0)
            + TextLen(S \ {u}, text)

FileAbsent == [kind |-> "absent"]
FileEmpty == [kind |-> "empty"]
\* text that json.load rejects, len characters longer than an entry list
\* without balances
FileCorrupt(len) == [kind |-> "corrupt", len |-> len]
FileJson(users) == [kind |-> "json", text |-> json_dump(users)]

FileLen(f) ==
    IF f.kind = "json" THEN TextLen(DOMAIN f.text, f.text)
    ELSE IF f.kind = "corrupt" THEN f.len
    ELSE 0

-----------------------------------------------------------------------------
(* save_users and load_users *)

\* open(DATA_FILE, "w") creates or truncates the file
OpenForWrite(f) == FileEmpty

\* json.dump(users, f) followed by the close that flushes the buffer
save_users(users) == FileJson(users)

\* mutant: a write that finds the text of another writer leaves it in place
WriteAtStart_KeepsOther(f, users) ==
    IF f.kind = "json" THEN f ELSE FileJson(users)

\* the same write when the file was opened some steps ago: the text goes to
\* offset 0 of whatever the file holds by now, and what another writer has
\* put beyond its end stays behind it
WriteAtStart(f, users) ==
    IF FileLen(f) > FileLen(FileJson(users))
    THEN FileCorrupt(FileLen(f))
    ELSE FileJson(users)

DefaultUsers(rnd) ==
    [u \in Names |->
        IF u = "customer1"
        THEN [password |-> "secure123", role |-> "Customer", balance |-> Balance1,
              secret |-> rnd[u]]
        ELSE IF u = "customer2"
        THEN [password |-> "wallet321", role |-> "Customer", balance |-> Balance2,
              secret |-> rnd[u]]
        ELSE [password |-> "adminpass", role |-> "Admin", secret |-> rnd[u]]]

Unreadable(f) == f.kind \in {"absent", "empty"}

MissingSecret(users) == {u \in DOMAIN users : "secret" \notin DOMAIN users[u]}

\* mutant: a patched entry is rebuilt from its password and role alone
Backfill_Rebuilt(users, rnd) ==
    [u \in DOMAIN users |->
        IF "secret" \notin DOMAIN users[u]
        THEN [password |-> users[u].password, role |-> users[u].role,
              secret |-> rnd[u]]
        ELSE users[u]]

Backfill(users, rnd) ==
    [u \in DOMAIN users |->
        IF "secret" \notin DOMAIN users[u]
        THEN users[u] @@ [secret |-> rnd[u]]
        ELSE users[u]]

\* the accounts for which load_users calls pyotp.random_base32()
Draws(f) ==
    IF f.kind = "json" THEN MissingSecret(json_load(f.text)) ELSE Names

\* mutant: the regenerated defaults are returned without being saved
load_users_DefaultsNotSaved(f, rnd) ==
    IF Unreadable(f) \/ f.kind = "corrupt"
    THEN [users |-> DefaultUsers(rnd), file |-> f, saved |-> FALSE]
    ELSE LET users == json_load(f.text)
             changed == MissingSecret(users) # {}
         IN [users |-> Backfill(users, rnd),
             file |-> IF changed THEN save_users(Backfill(users, rnd)) ELSE f,
             saved |-> changed]

\* load_users as one step: the mapping returned and the file left behind
load_users(f, rnd) ==
    IF Unreadable(f) \/ f.kind = "corrupt"
    THEN [users |-> DefaultUsers(rnd), file |-> save_users(DefaultUsers(rnd)),
          saved |-> TRUE]
    ELSE LET users == json_load(f.text)
             changed == MissingSecret(users) # {}
         IN [users |-> Backfill(users, rnd),
             file |-> IF changed THEN save_users(Backfill(users, rnd)) ELSE f,
             saved |-> changed]

-----------------------------------------------------------------------------
(* pyotp.TOTP: codes and verification *)

\* generate_otp: the code of a secret for one counter value, a truncated hash
\* into the code space (different secrets and counters can give the same code)
HOTP(secret, counter) == (secret * (counter + 2) + counter * counter) % NCodes

\* TOTP.verify(otp, valid_window=w): the code of any counter within w steps
totp_verify(secret, otp, for_time, valid_window) ==
    \E i \in (0 - valid_window)..valid_window : otp = HOTP(secret, for_time + i)

-----------------------------------------------------------------------------
(* The button handlers, on the mapping loaded by this script run *)

FreshSession == [logged_in |-> FALSE, user |-> "None", role |-> "unset"]

\* mutant: the password is not compared
CredentialsOk_NoPassword(users, username, password) == username \in DOMAIN users

CredentialsOk(users, username, password) ==
    /\ username \in DOMAIN users
    /\ password = users[username].password

\* mutant: verify without valid_window
OtpOk_NoDrift(users, username, otp_input, t) ==
    totp_verify(users[username].secret, otp_input, t, 0)

\* mutant: the code is verified against the secret of any account
OtpOk_AnySecret(users, username, otp_input, t) ==
    \E u \in DOMAIN users :
       totp_verify(users[u].secret, otp_input, t, ValidWindow)

OtpOk(users, username, otp_input, t) ==
    totp_verify(users[username].secret, otp_input, t, ValidWindow)

\* mutant: a refused OTP ends the session
LoginHandler_Logout(users, sess, username, password, otp_input, t) ==
    IF CredentialsOk(users, username, password)
    THEN IF OtpOk(users, username, otp_input, t)
         THEN [session |-> [logged_in |-> TRUE, user |-> username,
                            role |-> users[username].role],
               outcome |-> "LoginSuccess", consulted |-> TRUE]
         ELSE [session |-> FreshSession, outcome |-> "InvalidOTP",
               consulted |-> TRUE]
    ELSE [session |-> sess, outcome |-> "InvalidCredentials", consulted |-> FALSE]

\* if st.button("Login"): ...
LoginHandler(users, sess, username, password, otp_input, t) ==
    IF CredentialsOk(users, username, password)
    THEN IF OtpOk(users, username, otp_input, t)
         THEN [session |-> [logged_in |-> TRUE, user |-> username,
                            role |-> users[username].role],
               outcome |-> "LoginSuccess", consulted |-> TRUE]
         ELSE [session |-> sess, outcome |-> "InvalidOTP", consulted |-> TRUE]
    ELSE [session |-> sess, outcome |-> "InvalidCredentials", consulted |-> FALSE]

\* mutant: the sender is offered as a recipient too
Recipients_WithSelf(users, user) ==
    {u \in DOMAIN users : users[u].role = "Customer"}

\* the options of st.selectbox("Select recipient", ...)
Recipients(users, user) ==
    {u \in DOMAIN users : users[u].role = "Customer" /\ u # user}

\* mutant: the balance check compares strictly
SufficientFunds_Strict(balance, amount) == amount < balance

\* mutant: the balance check is missing
SufficientFunds_Unchecked(balance, amount) == TRUE

SufficientFunds(balance, amount) == amount <= balance

Debit(balance, amount) == balance - amount

\* mutant: the recipient is not credited
Credit_Dropped(balance, amount) == balance

Credit(balance, amount) == balance + amount

\* the debit and credit of both handlers
Move(users, from, to, amount) ==
    [users EXCEPT ![from].balance = Debit(@, amount),
                  ![to].balance = Credit(@, amount)]

\* mutant: a refused transfer has already debited the sender
TransferHandler_Partial(users, user, recipient, amount) ==
    IF SufficientFunds(users[user].balance, amount)
    THEN [users |-> Move(users, user, recipient, amount),
          outcome |-> "TransferSuccess", save |-> TRUE]
    ELSE [users |-> [users EXCEPT ![user].balance = Debit(@, amount)],
          outcome |-> "InsufficientFunds", save |-> TRUE]

\* mutant: the successful transfer forgets save_users
TransferHandler_NoSave(users, user, recipient, amount) ==
    IF SufficientFunds(users[user].balance, amount)
    THEN [users |-> Move(users, user, recipient, amount),
          outcome |-> "TransferSuccess", save |-> FALSE]
    ELSE [users |-> users, outcome |-> "InsufficientFunds", save |-> FALSE]

\* if st.button("Transfer Money"): ...
TransferHandler(users, user, recipient, amount) ==
    IF SufficientFunds(users[user].balance, amount)
    THEN [users |-> Move(users, user, recipient, amount),
          outcome |-> "TransferSuccess", save |-> TRUE]
    ELSE [users |-> users, outcome |-> "InsufficientFunds", save |-> FALSE]

\* fake_request = {"from": "customer1", "to": "customer2", "amount": randint}
FakeRequest(amount) == [from |-> "customer1", to |-> "customer2", amount |-> amount]

\* mutant: the request is applied without the balance check
ApproveHandler_Unchecked(users, request) ==
    [users |-> Move(users, request.from, request.to, request.amount),
     outcome |-> "ApproveSuccess", save |-> TRUE]

\* if st.button("Approve Transfer"): ...
ApproveHandler(users, request) ==
    IF users[request.from].balance >= request.amount
    THEN [users |-> Move(users, request.from, request.to, request.amount),
          outcome |-> "ApproveSuccess", save |-> TRUE]
    ELSE [users |-> users, outcome |-> "InsufficientFunds", save |-> FALSE]

\* the Customer dashboard is rendered (line 128)
CustomerView(sess) == sess.logged_in /\ sess.role = "Customer"

\* mutant: the Admin dashboard is rendered for every logged-in session
AdminView_NoRole(sess) == sess.logged_in

\* the Admin dashboard is rendered (line 154)
AdminView(sess) == sess.logged_in /\ sess.role = "Admin"

-----------------------------------------------------------------------------
(* What a page displays *)

NoUri == [name |-> "", secret |-> 0, issuer |-> ""]

\* pyotp.TOTP(user_secret).provisioning_uri(name=..., issuer_name=...): the
\* otpauth URI carries the account's secret in its query
ProvisioningUri(username, secret) ==
    [name |-> username, secret |-> secret, issuer |-> "FinTech Demo App"]

\* mutant: the QR code is rendered only for the session's own user
QrShown_OwnOnly(users, sess, username) ==
    IF username # "" /\ username \in DOMAIN users
          /\ sess.logged_in /\ sess.user = username
    THEN ProvisioningUri(username, users[username].secret)
    ELSE NoUri

\* lines 94-106: the QR code of the typed username, when that account exists;
\* neither the password field nor st.session_state is read
QrShown(users, sess, username) ==
    IF username # "" /\ username \in DOMAIN users
    THEN ProvisioningUri(username, users[username].secret)
    ELSE NoUri

\* no pending request is displayed
NoRequest == 0

\* line 165: the pending request is displayed on the Admin dashboard only;
\* draw is what random.randint returns if line 164 is reached
RequestShown(sess, draw) == IF AdminView(sess) THEN draw ELSE NoRequest

\* the content of the username field when a dashboard button is pressed: the
\* name the session has logged in with is still in it
FieldOf(sess) == IF sess.logged_in THEN sess.user ELSE ""

-----------------------------------------------------------------------------
(* History record of the latest completed script run *)

NoOp ==
    [op |-> "None", who |-> "None", outcome |-> "None", username |-> "",
     password |-> "", otp |-> BadOtp, amount |-> 0, from |-> "", to |-> "",
     consulted |-> FALSE, saved |-> FALSE, found |-> "None", uri |-> NoUri,
     request |-> NoRequest]

\* the globals of a finished script run are observable until the next run starts
Globals(s, users) == [t \in Sessions |-> IF t = s THEN users ELSE EmptyMap]

-----------------------------------------------------------------------------
(* Script runs taken as one step each (one interaction at a time) *)

\* a rerun with no button pressed: the value of a widget has changed, and
\* username is the content of the username field
Rerun(s, username, draw, rnd) ==
    /\ \E ld \in {load_users(file, rnd)} :
          /\ file' = ld.file
          /\ USERS' = Globals(s, ld.users)
          /\ last' = [NoOp EXCEPT !.op = "Rerun", !.who = s, !.saved = ld.saved,
                                  !.username = username, !.found = file.kind,
                                  !.uri = QrShown(ld.users, session[s], username),
                                  !.request = RequestShown(session[s], draw)]
    /\ UNCHANGED <<session, now, pc, req>>

\* the dashboards below the login form are rendered with the session as the
\* handler has left it
Login(s, username, password, otp_input, draw, rnd) ==
    /\ \E ld \in {load_users(file, rnd)} :
       \E r \in {LoginHandler(ld.users, session[s], username, password,
                              otp_input, now)} :
          /\ file' = ld.file
          /\ USERS' = Globals(s, ld.users)
          /\ session' = [session EXCEPT ![s] = r.session]
          /\ last' = [NoOp EXCEPT !.op = "Login", !.who = s,
                                  !.outcome = r.outcome,
                                  !.username = username, !.password = password,
                                  !.otp = otp_input, !.consulted = r.consulted,
                                  !.found = file.kind,
                                  !.uri = QrShown(ld.users, session[s], username),
                                  !.request = RequestShown(r.session, draw)]
    /\ UNCHANGED <<now, pc, req>>

Transfer(s, recipient, amount, rnd) ==
    /\ CustomerView(session[s])
    /\ \E ld \in {load_users(file, rnd)} :
          /\ recipient \in Recipients(ld.users, session[s].user)
          /\ \E r \in {TransferHandler(ld.users, session[s].user, recipient,
                                       amount)} :
                /\ file' = IF r.save THEN save_users(r.users) ELSE ld.file
                /\ USERS' = Globals(s, r.users)
                /\ last' = [NoOp EXCEPT !.op = "Transfer", !.who = s,
                                        !.outcome = r.outcome,
                                        !.amount = amount,
                                        !.from = session[s].user,
                                        !.to = recipient, !.saved = r.save,
                                        !.username = FieldOf(session[s]),
                                        !.found = file.kind,
                                        !.uri = QrShown(ld.users, session[s],
                                                        FieldOf(session[s]))]
    /\ UNCHANGED <<session, now, pc, req>>

\* amount is the draw of line 164 in this run: line 165 displays it and the
\* handler uses it
Approve(s, amount, rnd) ==
    /\ AdminView(session[s])
    /\ \E ld \in {load_users(file, rnd)} :
       \E r \in {ApproveHandler(ld.users, FakeRequest(amount))} :
          /\ file' = IF r.save THEN save_users(r.users) ELSE ld.file
          /\ USERS' = Globals(s, r.users)
          /\ last' = [NoOp EXCEPT !.op = "Approve", !.who = s,
                                  !.outcome = r.outcome, !.amount = amount,
                                  !.from = FakeRequest(amount).from,
                                  !.to = FakeRequest(amount).to,
                                  !.saved = r.save,
                                  !.username = FieldOf(session[s]),
                                  !.found = file.kind,
                                  !.uri = QrShown(ld.users, session[s],
                                                  FieldOf(session[s])),
                                  !.request = RequestShown(session[s], amount)]
    /\ UNCHANGED <<session, now, pc, req>>

\* mutant: rejecting applies the displayed request
Reject_Applies(s, draw, rnd) ==
    /\ AdminView(session[s])
    /\ \E ld \in {load_users(file, rnd)} :
       \E r \in {ApproveHandler(ld.users, FakeRequest(draw))} :
          /\ file' = IF r.save THEN save_users(r.users) ELSE ld.file
          /\ USERS' = Globals(s, r.users)
          /\ last' = [NoOp EXCEPT !.op = "Reject", !.who = s,
                                  !.outcome = "Rejected",
                                  !.username = FieldOf(session[s]),
                                  !.found = file.kind,
                                  !.uri = QrShown(ld.users, session[s],
                                                  FieldOf(session[s])),
                                  !.request = RequestShown(session[s], draw)]
    /\ UNCHANGED <<session, now, pc, req>>

Reject(s, draw, rnd) ==
    /\ AdminView(session[s])
    /\ \E ld \in {load_users(file, rnd)} :
          /\ file' = ld.file
          /\ USERS' = Globals(s, ld.users)
          /\ last' = [NoOp EXCEPT !.op = "Reject", !.who = s,
                                  !.outcome = "Rejected",
                                  !.username = FieldOf(session[s]),
                                  !.found = file.kind,
                                  !.uri = QrShown(ld.users, session[s],
                                                  FieldOf(session[s])),
                                  !.request = RequestShown(session[s], draw)]
    /\ UNCHANGED <<session, now, pc, req>>

\* the wall clock passes into the next 30-second step
Tick ==
    /\ now < MaxTime
    /\ now' = now + 1
    /\ UNCHANGED <<file, USERS, session, pc, req, last>>

-----------------------------------------------------------------------------
(* Initial states: users.json as the first script run may find it *)

\* a store written before secrets were introduced
LegacyStore ==
    [u \in Names |->
        IF u = "customer1"
        THEN [password |-> "secure123", role |-> "Customer", balance |-> Balance1]
        ELSE IF u = "customer2"
        THEN [password |-> "wallet321", role |-> "Customer", balance |-> Balance2]
        ELSE [password |-> "adminpass", role |-> "Admin"]]

\* a store whose balances allow a large transfer; customer2 has no secret yet
RichStore ==
    [u \in Names |->
        IF u = "customer1"
        THEN [password |-> "secure123", role |-> "Customer", balance |-> 6000,
              secret |-> 1]
        ELSE IF u = "customer2"
        THEN [password |-> "wallet321", role |-> "Customer", balance |-> 0]
        ELSE [password |-> "adminpass", role |-> "Admin", secret |-> 2]]

InitFiles ==
    {FileAbsent, FileEmpty, FileCorrupt(1), FileJson(LegacyStore),
     FileJson(RichStore)}

NoReq == [phase |-> "load", outcome |-> "None"]

Init ==
    /\ file \in InitFiles
    /\ USERS = [s \in Sessions |-> EmptyMap]
    /\ session = [s \in Sessions |-> FreshSession]
    /\ now = 1
    /\ pc = [s \in Sessions |-> "idle"]
    /\ req = [s \in Sessions |-> NoReq]
    /\ last = NoOp

-----------------------------------------------------------------------------
(* Spec: one interaction at a time, ledger inputs sampled widely *)

\* secrets drawn in the ledger specification
LedgerSeeds == {1}
\* OTP texts typed in the ledger specification: no code, and the code of
\* secret 1 for time step 1
LedgerOtps == {BadOtp, HOTP(1, 1)}
LedgerLogins == LoginInputs \ {<<"mallory", "secure123">>}
\* the draws of line 164 in the runs that do not handle Approve
LedgerDraws == {ApproveLo}

\* in the ledger specification a rerun leaves the username field as it is
Next ==
    \/ \E s \in Sessions, rnd \in [Draws(file) -> LedgerSeeds] :
         \E d \in LedgerDraws : Rerun(s, FieldOf(session[s]), d, rnd)
    \/ \E s \in Sessions, rnd \in [Draws(file) -> LedgerSeeds] :
         \E up \in LedgerLogins, o \in LedgerOtps, d \in LedgerDraws :
            Login(s, up[1], up[2], o, d, rnd)
    \/ \E s \in Sessions, rnd \in [Draws(file) -> LedgerSeeds] :
         \E to \in Names, a \in TransferAmounts : Transfer(s, to, a, rnd)
    \/ \E s \in Sessions, rnd \in [Draws(file) -> LedgerSeeds] :
         \E a \in ApproveAmounts : Approve(s, a, rnd)
    \/ \E s \in Sessions, rnd \in [Draws(file) -> LedgerSeeds] :
         \E d \in LedgerDraws : Reject(s, d, rnd)
    \/ Tick

Spec == Init /\ [][Next]_vars

-----------------------------------------------------------------------------
(* SpecSeeded: one interaction at a time on the store that load_users seeds
   (users.json absent, empty or unparseable at the first run, or holding the
   default balances already), with transfers of whole balances *)

SeededFiles == {FileAbsent, FileEmpty, FileCorrupt(1), FileJson(LegacyStore)}

InitSeeded == Init /\ file \in SeededFiles

\* st.number_input values: customer1's and customer2's default balances and
\* their sum
SeededTransferAmounts ==
    {a \in {Balance1, Balance2, Balance1 + Balance2} :
        MinAmount <= a /\ a <= MaxAmount}

NextSeeded ==
    \/ \E s \in Sessions, rnd \in [Draws(file) -> LedgerSeeds] :
         \E d \in LedgerDraws : Rerun(s, FieldOf(session[s]), d, rnd)
    \/ \E s \in Sessions, rnd \in [Draws(file) -> LedgerSeeds] :
         \E up \in LedgerLogins, o \in LedgerOtps, d \in LedgerDraws :
            Login(s, up[1], up[2], o, d, rnd)
    \/ \E s \in Sessions, rnd \in [Draws(file) -> LedgerSeeds] :
         \E to \in Names, a \in SeededTransferAmounts : Transfer(s, to, a, rnd)
    \/ \E s \in Sessions, rnd \in [Draws(file) -> LedgerSeeds] :
         \E a \in ApproveAmounts : Approve(s, a, rnd)
    \/ \E s \in Sessions, rnd \in [Draws(file) -> LedgerSeeds] :
         \E d \in LedgerDraws : Reject(s, d, rnd)
    \/ Tick

SpecSeeded == InitSeeded /\ [][NextSeeded]_vars

-----------------------------------------------------------------------------
(* SpecAuth: the login form alone, with every OTP text and every draw of
   secrets, driven by one browser session *)

AuthSessions == {"s1"}
\* the contents of the username field: empty, the accounts, an unknown name
AuthNames == {"", "customer1", "customer2", "admin1", "mallory"}
AuthDraws == {ApproveLo}

NextAuth ==
    \/ \E s \in AuthSessions, rnd \in [Draws(file) -> Seeds] :
         \E u \in AuthNames, d \in AuthDraws : Rerun(s, u, d, rnd)
    \/ \E s \in AuthSessions, rnd \in [Draws(file) -> Seeds] :
         \E up \in LoginInputs, o \in OtpInputs, d \in AuthDraws :
            Login(s, up[1], up[2], o, d, rnd)
    \/ Tick

SpecAuth == Init /\ [][NextAuth]_vars

-----------------------------------------------------------------------------
(* SpecRace: the script runs of two sessions interleaved.  Streamlit runs
   every session's script in a thread of its own and the script takes no
   lock, so the file operations of load_users and save_users of two runs
   interleave; the statements between them work on the run's own globals.
   The record of the latest whole script run (last) is not kept here: the
   message of a finished run is in req. *)

\* one outcome of the draws: distinct secrets for the three accounts
Rotation(k, S) ==
    [u \in S |-> (((IF u = "customer1" THEN 0 ELSE IF u = "customer2" THEN 1 ELSE 2)
                    + k) % NSeeds) + 1]

\* two outcomes of the draws of one load_users call
RaceDraws(S) == {Rotation(k, S) : k \in {0, 1}}
RaceLogins ==
    {<<"customer1", "secure123">>, <<"customer2", "wallet321">>,
     <<"admin1", "adminpass">>}
\* the codes an authenticator shows at time step 1
RaceOtps == {HOTP(k, 1) : k \in Seeds}
RaceTransferAmounts == {1500}
RaceApproveAmounts == {5000}

\* the browser asks for a rerun; the page of the previous run is cleared.
\* The pressed button and the widget values travel with the request, but no
\* statement reads them before the handlers do, so they are drawn there.
Begin(s) ==
    /\ pc[s] = "idle"
    /\ pc' = [pc EXCEPT ![s] = "line29"]
    /\ req' = [req EXCEPT ![s] = NoReq]
    /\ USERS' = [USERS EXCEPT ![s] = EmptyMap]
    /\ UNCHANGED <<file, session, now, last>>

\* line 29: os.path.exists / os.path.getsize; lines 31-35 build the defaults
LoadCheck(s, rnd) ==
    /\ pc[s] = "line29"
    /\ IF Unreadable(file)
       THEN /\ USERS' = [USERS EXCEPT ![s] = DefaultUsers(rnd)]
            /\ pc' = [pc EXCEPT ![s] = "open"]
       ELSE /\ pc' = [pc EXCEPT ![s] = "line40"]
            /\ UNCHANGED USERS
    /\ UNCHANGED <<file, session, now, req, last>>

\* lines 40-50: open, json.load, backfill; lines 51-56 on JSONDecodeError
LoadRead(s, rnd) ==
    /\ pc[s] = "line40"
    /\ IF file.kind # "json"
       THEN /\ USERS' = [USERS EXCEPT ![s] = DefaultUsers(rnd)]
            /\ pc' = [pc EXCEPT ![s] = "open"]
       ELSE /\ USERS' = [USERS EXCEPT ![s] = Backfill(json_load(file.text), rnd)]
            /\ pc' = [pc EXCEPT ![s] =
                        IF MissingSecret(json_load(file.text)) # {}
                        THEN "open" ELSE "body"]
    /\ UNCHANGED <<file, session, now, req, last>>

\* line 24: open(DATA_FILE, "w")
SaveOpen(s) ==
    /\ pc[s] = "open"
    /\ file' = OpenForWrite(file)
    /\ pc' = [pc EXCEPT ![s] = "write"]
    /\ UNCHANGED <<USERS, session, now, req, last>>

\* the page of a finished run: its message stays on the screen, its globals
\* are released
Finished(s, outcome) ==
    /\ pc' = [pc EXCEPT ![s] = "idle"]
    /\ req' = [req EXCEPT ![s] = [NoReq EXCEPT !.outcome = outcome]]
    /\ USERS' = [USERS EXCEPT ![s] = EmptyMap]

\* a handler has changed the balances and calls save_users
HandlerSaves(s, users, outcome) ==
    /\ USERS' = [USERS EXCEPT ![s] = users]
    /\ req' = [req EXCEPT ![s].phase = "handler", ![s].outcome = outcome]
    /\ pc' = [pc EXCEPT ![s] = "open"]

\* line 25 and the end of the with block: the text reaches the file
SaveWrite(s) ==
    /\ pc[s] = "write"
    /\ file' = WriteAtStart(file, USERS[s])
    /\ IF req[s].phase = "load"
       THEN /\ pc' = [pc EXCEPT ![s] = "body"]
            /\ UNCHANGED <<USERS, req>>
       ELSE Finished(s, req[s].outcome)
    /\ UNCHANGED <<session, now, last>>

\* lines 85-177 with no button pressed
BodyNone(s) ==
    /\ pc[s] = "body"
    /\ Finished(s, "None")
    /\ UNCHANGED <<file, session, now, last>>

\* lines 109-123
BodyLogin(s, username, password, otp_input) ==
    /\ pc[s] = "body"
    /\ \E r \in {LoginHandler(USERS[s], session[s], username, password,
                              otp_input, now)} :
          /\ session' = [session EXCEPT ![s] = r.session]
          /\ Finished(s, r.outcome)
    /\ UNCHANGED <<file, now, last>>

\* lines 128-149, up to the call of save_users
BodyTransfer(s, recipient, amount) ==
    /\ pc[s] = "body"
    /\ CustomerView(session[s])
    /\ recipient \in Recipients(USERS[s], session[s].user)
    /\ \E r \in {TransferHandler(USERS[s], session[s].user, recipient, amount)} :
          IF r.save THEN HandlerSaves(s, r.users, r.outcome)
                    ELSE Finished(s, r.outcome)
    /\ UNCHANGED <<file, session, now, last>>

\* lines 154-174, up to the call of save_users
BodyApprove(s, amount) ==
    /\ pc[s] = "body"
    /\ AdminView(session[s])
    /\ \E r \in {ApproveHandler(USERS[s], FakeRequest(amount))} :
          IF r.save THEN HandlerSaves(s, r.users, r.outcome)
                    ELSE Finished(s, r.outcome)
    /\ UNCHANGED <<file, session, now, last>>

\* lines 176-177
BodyReject(s) ==
    /\ pc[s] = "body"
    /\ AdminView(session[s])
    /\ Finished(s, "Rejected")
    /\ UNCHANGED <<file, session, now, last>>

NextRace ==
    \/ \E s \in Sessions : Begin(s)
    \/ \E s \in Sessions, rnd \in RaceDraws(IF Unreadable(file) THEN Names ELSE {}) :
          LoadCheck(s, rnd)
    \/ \E s \in Sessions, rnd \in RaceDraws(Draws(file)) : LoadRead(s, rnd)
    \/ \E s \in Sessions : SaveOpen(s)
    \/ \E s \in Sessions : SaveWrite(s)
    \/ \E s \in Sessions : BodyNone(s)
    \/ \E s \in Sessions, up \in RaceLogins, o \in RaceOtps :
          BodyLogin(s, up[1], up[2], o)
    \/ \E s \in Sessions, to \in Names, a \in RaceTransferAmounts :
          BodyTransfer(s, to, a)
    \/ \E s \in Sessions, a \in RaceApproveAmounts : BodyApprove(s, a)
    \/ \E s \in Sessions : BodyReject(s)

SpecRace == Init /\ [][NextRace]_vars

-----------------------------------------------------------------------------
(* Auxiliary definitions of the properties *)

RECURSIVE SumOver(_, _)
SumOver(S, users) ==
    IF S = {} THEN 0
    ELSE LET u == CHOOSE x \in S : TRUE
         IN users[u].balance + SumOver(S \ {u}, users)

Customers(users) == {u \in DOMAIN users : users[u].role = "Customer"}

CustomerSum(users) == SumOver(Customers(users), users)

\* the mapping persisted in users.json
Stored == json_load(file.text)

\* under Spec every step that leaves the clock alone is one whole script run,
\* which records itself in last'
Ran(op) == now' = now /\ last'.op = op

RanLedger == Ran("Transfer") \/ Ran("Approve")

\* users with amount moved from one balance to another and nothing else changed
Moved(users, from, to, amount) ==
    [u \in DOMAIN users |->
        IF u = from THEN [users[u] EXCEPT !.balance = users[u].balance - amount]
        ELSE IF u = to THEN [users[u] EXCEPT !.balance = users[u].balance + amount]
        ELSE users[u]]

-----------------------------------------------------------------------------
(* C1: conservation.  No step of the system changes the sum of the Customer
   balances held in users.json; in particular a Transfer or an Approve,
   accepted or refused, by whichever logged-in session, leaves both the
   persisted sum and the sum of the run's in-memory mapping equal to the sum
   that was persisted before it. *)
C1_Conservation ==
    [][file.kind = "json" =>
          /\ file'.kind = "json"
          /\ CustomerSum(json_load(file'.text)) = CustomerSum(Stored)
          /\ RanLedger => CustomerSum(USERS'[last'.who]) = CustomerSum(Stored)]_vars

\* a Transfer of 500 and then an Approve of 5000 were both applied to the
\* store that began with 6000 and 0
C1_Witness ==
    /\ last.op = "Approve"
    /\ last.outcome = "ApproveSuccess"
    /\ file.kind = "json"
    /\ Stored["customer1"].balance = 500
    /\ Stored["customer2"].balance = 5500

(* C2: every Customer account, persisted or in the memory of a script run,
   has a balance, and that balance is never negative. *)
C2_NonNegative ==
    /\ file.kind = "json" =>
          \A u \in Customers(Stored) :
             "balance" \in DOMAIN Stored[u] /\ Stored[u].balance >= 0
    /\ \A s \in Sessions : \A u \in Customers(USERS[s]) :
          "balance" \in DOMAIN USERS[s][u] /\ USERS[s][u].balance >= 0

\* a transfer of the sender's whole balance was accepted and left exactly 0
C2_Witness ==
    /\ last.op = "Transfer"
    /\ last.outcome = "TransferSuccess"
    /\ file.kind = "json"
    /\ Stored[last.from].balance = 0
    /\ USERS[last.who][last.from].balance = 0

(* C3: a Transfer or an Approve whose amount exceeds the sender's balance
   ends in the insufficient-funds outcome, writes nothing, and leaves the
   file, every account of the run's mapping and the sessions as they were. *)
C3_InsufficientFunds ==
    [][(RanLedger /\ file.kind = "json"
          /\ last'.amount > Stored[last'.from].balance) =>
          /\ last'.outcome = "InsufficientFunds"
          /\ ~last'.saved
          /\ file' = file
          /\ USERS'[last'.who] = Stored
          /\ session' = session]_vars

\* a Transfer of 2000 from customer1's 1500 was refused; balances 1500 / 3200
C3_Witness ==
    /\ last.op = "Transfer"
    /\ last.from = "customer1"
    /\ last.amount = 2000
    /\ last.outcome = "InsufficientFunds"
    /\ file.kind = "json"
    /\ Stored["customer1"].balance = Balance1
    /\ Stored["customer2"].balance = Balance2

(* C4: a Transfer or an Approve whose amount is at most the sender's balance
   succeeds; the sender loses exactly the amount, the recipient gains exactly
   the amount, nothing else of any account changes, and the result is what
   users.json holds afterwards. *)
C4_Applied ==
    [][(RanLedger /\ file.kind = "json"
          /\ last'.amount <= Stored[last'.from].balance) =>
          /\ last'.outcome =
                (IF last'.op = "Transfer" THEN "TransferSuccess"
                                          ELSE "ApproveSuccess")
          /\ last'.saved
          /\ USERS'[last'.who] = Moved(Stored, last'.from, last'.to, last'.amount)
          /\ file'.kind = "json"
          /\ json_load(file'.text) =
                Moved(Stored, last'.from, last'.to, last'.amount)]_vars

\* customer1 = 1500, customer2 = 3200, transfer 500: 1000 and 3700
C4_Witness ==
    /\ last.op = "Transfer"
    /\ last.from = "customer1"
    /\ last.to = "customer2"
    /\ last.amount = 500
    /\ last.outcome = "TransferSuccess"
    /\ file.kind = "json"
    /\ Stored["customer1"].balance = 1000
    /\ Stored["customer2"].balance = 3700

(* C5: role gating.  A Transfer is run only by a session that is logged in
   with role Customer and its sender is that session's own user; an Approve
   or a Reject is run only by a session logged in with role Admin; a session
   that is not logged in runs no ledger operation and no step changes any
   persisted balance unless it is such a Transfer or Approve. *)
C5_RoleGating ==
    [][/\ Ran("Transfer") =>
            /\ session[last'.who].logged_in
            /\ session[last'.who].role = "Customer"
            /\ last'.from = session[last'.who].user
       /\ (Ran("Approve") \/ Ran("Reject")) =>
            /\ session[last'.who].logged_in
            /\ session[last'.who].role = "Admin"
       /\ (file.kind = "json" /\ file'.kind = "json"
             /\ \E u \in Customers(Stored) :
                   json_load(file'.text)[u].balance # Stored[u].balance) =>
            RanLedger]_vars

\* an Admin session rejected a request while the other session, logged in as
\* a Customer, has no Admin operation and the Admin no Transfer
C5_Witness ==
    /\ last.op = "Reject"
    /\ AdminView(session[last.who])
    /\ ~CustomerView(session[last.who])
    /\ \E t \in Sessions \ {last.who} :
          CustomerView(session[t]) /\ ~AdminView(session[t])

(* C9: after every completed script run (no button, Login, Transfer, Approve,
   Reject, accepted or refused) users.json parses to exactly the mapping the
   run holds in memory. *)
C9_Synchrony ==
    last.op # "None" =>
       /\ file.kind = "json"
       /\ json_load(file.text) = USERS[last.who]

\* a refused Transfer and the store still in step with memory
C9_Witness ==
    /\ last.op = "Transfer"
    /\ last.outcome = "InsufficientFunds"
    /\ file.kind = "json"
    /\ json_load(file.text) = USERS[last.who]
    /\ \E u \in Customers(Stored) : Stored[u].balance = Balance1 + Balance2

-----------------------------------------------------------------------------
(* Login *)

\* the mapping the Login run that just completed has loaded
Loaded == USERS'[last'.who]

\* the run's username exists and the typed password is the stored one
Matched ==
    /\ last'.username \in DOMAIN Loaded
    /\ last'.password = Loaded[last'.username].password

\* the codes of a secret for the previous, the current and the next time step
WindowCodes(secret, t) == {HOTP(secret, t - 1), HOTP(secret, t), HOTP(secret, t + 1)}

\* the codes of a secret for the time steps two or more away from t
FarCodes(secret, t) ==
    {HOTP(secret, c) : c \in {c \in 0..(MaxTime + 3) : c < t - 1 \/ c > t + 1}}

LoggedInAs(sess, users, username) ==
    sess = [logged_in |-> TRUE, user |-> username, role |-> users[username].role]

(* C6 (amended): for an existing username with the matching password, Login
   succeeds exactly when the submitted text is one of the three codes of the
   account's own secret for the previous, current and next time step; on
   success the session is authenticated with that username and the stored
   role; any other text, a code of a step two or more away included unless
   it coincides with one of the three, ends in invalid-OTP and leaves the
   session as it was. *)
C6_LoginWindow ==
    [][(Ran("Login") /\ Matched) =>
          LET secret == Loaded[last'.username].secret IN
          IF last'.otp \in WindowCodes(secret, now)
          THEN /\ last'.outcome = "LoginSuccess"
               /\ LoggedInAs(session'[last'.who], Loaded, last'.username)
          ELSE /\ last'.outcome = "InvalidOTP"
               /\ session' = session]_vars

\* a login with the code of the next time step succeeded as Admin
C6_Witness ==
    /\ last.op = "Login"
    /\ last.outcome = "LoginSuccess"
    /\ last.username = "admin1"
    /\ USERS[last.who] # EmptyMap
    /\ last.otp = HOTP(USERS[last.who]["admin1"].secret, now + 1)
    /\ last.otp # HOTP(USERS[last.who]["admin1"].secret, now)
    /\ session[last.who] = [logged_in |-> TRUE, user |-> "admin1", role |-> "Admin"]

(* C6 as stated: in addition, every code of a time step two or more away is
   rejected with invalid-OTP. *)
C6_FarCodeRejected ==
    [][(Ran("Login") /\ Matched) =>
          LET secret == Loaded[last'.username].secret IN
          /\ last'.outcome = "LoginSuccess" <=> last'.otp \in WindowCodes(secret, now)
          /\ last'.otp \in FarCodes(secret, now) => last'.outcome = "InvalidOTP"]_vars

(* C7: a Login whose username is unknown or whose password differs from the
   stored one ends in invalid-credentials whatever the OTP text, leaves the
   session as it was, and the OTP verifier is consulted only in runs whose
   username and password matched. *)
C7_InvalidCredentials ==
    [][Ran("Login") =>
          /\ ~Matched =>
                /\ last'.outcome = "InvalidCredentials"
                /\ ~last'.consulted
                /\ session' = session
          /\ last'.consulted => Matched]_vars

\* customer1 with customer2's password and customer1's current code
C7_Witness ==
    /\ last.op = "Login"
    /\ last.outcome = "InvalidCredentials"
    /\ last.username = "customer1"
    /\ last.password = "wallet321"
    /\ USERS[last.who] # EmptyMap
    /\ last.otp = HOTP(USERS[last.who]["customer1"].secret, now)
    /\ ~session[last.who].logged_in

\* the codes of the other accounts' secrets for the three steps of the window
OtherCodes(users, username, t) ==
    UNION {WindowCodes(users[b].secret, t) : b \in DOMAIN users \ {username}}

(* C8 (amended): a Login as account A with A's password and a code derived
   from another account's secret authenticates only when that code is also
   one of the three window codes of A's own secret (equal secrets, or a
   collision of the codes); otherwise it ends in invalid-OTP and the session
   is left as it was. *)
C8_OwnSecretOnly ==
    [][(Ran("Login") /\ Matched
          /\ last'.otp \in OtherCodes(Loaded, last'.username, now)) =>
          IF last'.otp \in WindowCodes(Loaded[last'.username].secret, now)
          THEN last'.outcome = "LoginSuccess"
          ELSE last'.outcome = "InvalidOTP" /\ session' = session]_vars

\* customer1's login with customer2's current code, of a different secret,
\* was refused
C8_Witness ==
    /\ last.op = "Login"
    /\ last.outcome = "InvalidOTP"
    /\ last.username = "customer1"
    /\ USERS[last.who] # EmptyMap
    /\ USERS[last.who]["customer2"].secret # USERS[last.who]["customer1"].secret
    /\ last.otp = HOTP(USERS[last.who]["customer2"].secret, now)
    /\ ~session[last.who].logged_in

\* the window codes of the other accounts whose secret differs from the
\* secret of username
ForeignCodes(users, username, t) ==
    UNION {WindowCodes(users[b].secret, t) :
             b \in {b \in DOMAIN users \ {username} :
                      users[b].secret # users[username].secret}}

(* C8 as stated, for two accounts whose secrets differ: a Login as A with a
   code derived from B's secret never authenticates. *)
C8_NeverCrossAccount ==
    [][(Ran("Login") /\ Matched
          /\ last'.otp \in ForeignCodes(Loaded, last'.username, now)) =>
          last'.outcome # "LoginSuccess"]_vars

-----------------------------------------------------------------------------
(* Seeds *)

HasSecret(f, u) ==
    /\ f.kind = "json"
    /\ u \in DOMAIN f.text
    /\ "secret" \in DOMAIN f.text[u]

(* C10: seed immutability.  Once users.json holds a secret for an account,
   no step of the system replaces it by another one. *)
C10_SeedImmutable ==
    [][\A u \in Names :
          (HasSecret(file, u) /\ HasSecret(file', u)) =>
             file'.text[u].secret = file.text[u].secret]_vars

-----------------------------------------------------------------------------
(* load_users *)

\* a script run that presses no dashboard button ends with the mapping that
\* load_users has returned in its globals
RanLoad == Ran("Rerun") \/ Ran("Login")

\* the fields of a default account, its secret aside
IsDefault(users, u, role, balance) ==
    /\ users[u].role = role
    /\ IF role = "Customer"
       THEN /\ DOMAIN users[u] = {"password", "role", "balance", "secret"}
            /\ users[u].balance = balance
       ELSE DOMAIN users[u] = {"password", "role", "secret"}
    /\ users[u].secret \in Seeds

(* C11: when users.json is absent, empty or unparseable, load_users returns
   exactly the accounts customer1 (Customer, 1500), customer2 (Customer,
   3200) and admin1 (Admin, no balance), each with a drawn secret, and the
   file holds that same mapping when it returns; a rerun reports the save. *)
C11_DefaultsSeeded ==
    [][(RanLoad /\ file.kind \in {"absent", "empty", "corrupt"}) =>
          /\ DOMAIN Loaded = Names
          /\ IsDefault(Loaded, "customer1", "Customer", Balance1)
          /\ IsDefault(Loaded, "customer2", "Customer", Balance2)
          /\ IsDefault(Loaded, "admin1", "Admin", 0)
          /\ file'.kind = "json"
          /\ json_load(file'.text) = Loaded
          /\ Ran("Rerun") => last'.saved]_vars

\* an unparseable file was replaced by the defaults with three different
\* secrets
C11_Witness ==
    /\ last.op = "Rerun"
    /\ last.found = "corrupt"
    /\ last.saved
    /\ file.kind = "json"
    /\ Stored = USERS[last.who]
    /\ Stored["customer1"].balance = Balance1
    /\ Stored["customer2"].balance = Balance2
    /\ "balance" \notin DOMAIN Stored["admin1"]
    /\ Stored["customer1"].secret = 3
    /\ Stored["customer2"].secret = 1
    /\ Stored["admin1"].secret = 2

\* entry new is entry old with a secret added and nothing else touched
Patched(old, new) ==
    /\ DOMAIN new = DOMAIN old \cup {"secret"}
    /\ \A k \in DOMAIN old : new[k] = old[k]
    /\ new.secret \in Seeds

(* C12: backfill frame.  When users.json parses, load_users returns the
   stored entries, no more and no fewer; an entry with a secret is returned
   as stored, an entry without one is returned with a drawn secret and its
   other fields as stored; the patched mapping is what the file holds
   afterwards, and when no entry lacked a secret the file is left as it was
   and save_users is not called. *)
C12_BackfillFrame ==
    [][(RanLoad /\ file.kind = "json") =>
          \A stored \in {Stored} : \A loaded \in {Loaded} :
             /\ DOMAIN loaded = DOMAIN stored
             /\ \A u \in DOMAIN stored :
                   IF "secret" \in DOMAIN stored[u]
                   THEN loaded[u] = stored[u]
                   ELSE Patched(stored[u], loaded[u])
             /\ file'.kind = "json"
             /\ json_load(file'.text) = loaded
             /\ MissingSecret(stored) = {} => file' = file
             /\ Ran("Rerun") => (last'.saved <=> MissingSecret(stored) # {})]_vars

\* the store with balances 6000 and 0 whose customer2 had no secret: it got
\* secret 3, customer1 and admin1 kept theirs, the balances are as stored
C12_Witness ==
    /\ last.op = "Rerun"
    /\ last.found = "json"
    /\ last.saved
    /\ file.kind = "json"
    /\ Stored = USERS[last.who]
    /\ Stored["customer1"] = RichStore["customer1"]
    /\ Stored["admin1"] = RichStore["admin1"]
    /\ Stored["customer2"] = RichStore["customer2"] @@ [secret |-> 3]

-----------------------------------------------------------------------------
(* Ledger preconditions *)

IsCustomer(users, u) == u \in DOMAIN users /\ users[u].role = "Customer"

(* C13: every Transfer that is applied has an amount from 1 to 10000, a
   recipient other than the sender, and a sender and a recipient that are
   both entries of the store with role Customer; it adds and removes no
   entry and leaves every entry other than these two, the Admin's included,
   as it was. *)
C13_TransferPreconditions ==
    [][(Ran("Transfer") /\ last'.outcome = "TransferSuccess") =>
          \A stored \in {Stored} : \A after \in {json_load(file'.text)} :
             /\ MinAmount <= last'.amount /\ last'.amount <= MaxAmount
             /\ last'.to # last'.from
             /\ IsCustomer(stored, last'.from)
             /\ IsCustomer(stored, last'.to)
             /\ DOMAIN after = DOMAIN stored
             /\ \A u \in DOMAIN stored \ {last'.from, last'.to} :
                   after[u] = stored[u]]_vars

\* customer2 has sent 2000 of its 3200 to customer1
C13_Witness ==
    /\ last.op = "Transfer"
    /\ last.outcome = "TransferSuccess"
    /\ last.from = "customer2"
    /\ last.to = "customer1"
    /\ last.amount = 2000
    /\ Stored["customer1"].balance = Balance1 + 2000
    /\ Stored["customer2"].balance = Balance2 - 2000
    /\ Stored["admin1"].role = "Admin"

-----------------------------------------------------------------------------
(* Frame of Login and Reject *)

\* entry new has every field of entry old with its value
Keeps(old, new) ==
    /\ DOMAIN old \subseteq DOMAIN new
    /\ \A k \in DOMAIN old : new[k] = old[k]

(* C14: a script run that handles Login (accepted, refused for the password
   or refused for the OTP) or Reject leaves users.json and the accounts in
   memory exactly as load_users alone leaves them: it calls save_users for
   no handler, no stored password, role, balance or secret changes, and a
   file that needed no seeding or backfill is not written at all.  A Login
   run changes nothing but the session it runs in; a Reject run changes no
   session. *)
C14_LoginRejectFrame ==
    [][(Ran("Login") \/ Ran("Reject")) =>
          /\ ~last'.saved
          /\ \E rnd \in [Draws(file) -> Seeds] :
                \E ld \in {load_users(file, rnd)} :
                   file' = ld.file /\ Loaded = ld.users
          /\ file.kind = "json" =>
                \A stored \in {Stored} :
                   /\ \A u \in DOMAIN stored :
                         /\ Keeps(stored[u], Loaded[u])
                         /\ Keeps(stored[u], json_load(file'.text)[u])
                   /\ MissingSecret(stored) = {} => file' = file
          /\ \A t \in Sessions \ {last'.who} : session'[t] = session[t]
          /\ Ran("Reject") => session' = session
          /\ <<pc', req'>> = <<pc, req>>]_vars

\* an Admin has rejected the request while customer1 holds 6000: the store
\* is as it was found
C14_Witness ==
    /\ last.op = "Reject"
    /\ last.found = "json"
    /\ AdminView(session[last.who])
    /\ file.kind = "json"
    /\ Stored = USERS[last.who]
    /\ Stored["customer1"].balance = 6000
    /\ Stored["customer2"].balance = 0

-----------------------------------------------------------------------------
(* Interleaved script runs *)

\* session t is inside save_users for a handler: it has opened users.json
\* for writing and has not yet written the balances it holds
SavingBalances(t) == pc[t] = "write" /\ req[t].phase = "handler"

(* C15: atomic save.  While one session is inside save_users with the
   balances of a Transfer or an Approve, a step of another session's
   load_users finds users.json parseable: the test of line 29 does not find
   it empty and the run does not go on to regenerate the default accounts. *)
C15_AtomicSave ==
    [][\A s \in Sessions : \A t \in Sessions \ {s} :
          (SavingBalances(t) /\ pc[s] = "line29" /\ pc'[s] # "line29") =>
             /\ file.kind = "json"
             /\ pc'[s] = "line40"]_vars

\* the step in which session s leaves save_users
Saved(s) == pc[s] = "write" /\ pc'[s] # "write"

(* C16: lost update.  save_users writes the whole mapping of the run that
   calls it: whenever a save completes and leaves a parseable file, the
   file holds exactly the saving session's copy, so whatever another
   session has saved since this run loaded is gone, and a run that saves
   for a handler reports the handler's success.  C16_Witness is the
   interleaving in which two transfers both succeed on the balance 6000. *)
C16_LastWriterWins ==
    [][\A s \in Sessions :
          Saved(s) =>
             /\ file'.kind = "json" => json_load(file'.text) = USERS[s]
             /\ req[s].phase = "handler" =>
                   /\ req[s].outcome \in {"TransferSuccess", "ApproveSuccess"}
                   /\ req'[s].outcome = req[s].outcome
                   /\ pc'[s] = "idle"]_vars

\* both sessions are logged in as customer1 and each has sent 1500 of the
\* 6000 to customer2.  Session t has saved 4500 / 1500 and reported success;
\* session s loaded 6000 before that, holds 4500 / 1500 as well and is about
\* to save it: one debit of customer1 is lost.
C16_Witness ==
    \E s \in Sessions : \E t \in Sessions \ {s} :
       /\ session[s].user = "customer1" /\ session[t].user = "customer1"
       /\ pc[t] = "idle" /\ req[t].outcome = "TransferSuccess"
       /\ file.kind = "json"
       /\ Stored["customer1"].balance = 4500
       /\ Stored["customer2"].balance = 1500
       /\ pc[s] = "open" /\ req[s].phase = "handler"
       /\ req[s].outcome = "TransferSuccess"
       /\ USERS[s]["customer1"].balance = 4500
       /\ USERS[s]["customer2"].balance = 1500

-----------------------------------------------------------------------------
(* Approve *)

(* C17: on the store seeded with the default balances 1500 and 3200,
   customer1's persisted balance stays below 5000 whatever is transferred,
   and every Approve run handles a request from customer1 to customer2 of an
   amount from 5000 to 10000, ends in the insufficient-funds outcome, calls
   no save_users and leaves users.json and the sessions as they were. *)
C17_ApproveNeverSucceeds ==
    [][/\ file'.kind = "json" =>
            json_load(file'.text)["customer1"].balance < ApproveLo
       /\ Ran("Approve") =>
            /\ last'.from = "customer1" /\ last'.to = "customer2"
            /\ ApproveLo <= last'.amount /\ last'.amount <= ApproveHi
            /\ last'.outcome = "InsufficientFunds"
            /\ ~last'.saved
            /\ file' = file
            /\ session' = session]_vars

\* customer2 has sent its 3200 to customer1, and a request of 5000 was
\* still refused on the balance 4700
C17_Witness ==
    /\ last.op = "Approve"
    /\ last.outcome = "InsufficientFunds"
    /\ last.amount = ApproveLo
    /\ file.kind = "json"
    /\ Stored["customer1"].balance = Balance1 + Balance2
    /\ Stored["customer2"].balance = 0

\* the session of the run that just completed pressed its button on the
\* page of the run before, which showed a pending request
PressedOnRequest == last.who = last'.who /\ last.request # NoRequest

(* C18: the amount that a successful Approve moves from customer1 to
   customer2 is the amount of the pending request that was on the Admin's
   page when the button was pressed. *)
C18_ApprovesDisplayed ==
    [][(Ran("Approve") /\ last'.outcome = "ApproveSuccess" /\ PressedOnRequest) =>
          /\ last'.amount = last.request
          /\ json_load(file'.text) =
                Moved(Stored, "customer1", "customer2", last.request)]_vars

-----------------------------------------------------------------------------
(* Sessions *)

(* C19: session stickiness.  No step ends the authentication of a session;
   a rerun, a Transfer, an Approve, a Reject and a refused Login leave every
   session as it was; an accepted Login sets logged_in, user and role of its
   own session together, to the typed username and that account's stored
   role, and leaves the other sessions alone; so the role of an
   authenticated session is the role users.json holds for its user. *)
C19_SessionSticky ==
    [][/\ \A s \in Sessions : session[s].logged_in => session'[s].logged_in
       /\ (Ran("Rerun") \/ Ran("Transfer") \/ Ran("Approve") \/ Ran("Reject")) =>
             session' = session
       /\ Ran("Login") =>
             IF last'.outcome = "LoginSuccess"
             THEN /\ LoggedInAs(session'[last'.who], Loaded, last'.username)
                  /\ \A t \in Sessions \ {last'.who} : session'[t] = session[t]
             ELSE session' = session
       /\ \A s \in Sessions :
             session'[s].logged_in =>
                /\ file'.kind = "json"
                /\ session'[s].user \in DOMAIN json_load(file'.text)
                /\ session'[s].role = json_load(file'.text)[session'[s].user].role]_vars

\* a session logged in as customer1 has tried admin1 with a wrong OTP and is
\* still customer1's
C19_Witness ==
    /\ last.op = "Login"
    /\ last.outcome = "InvalidOTP"
    /\ last.username = "admin1"
    /\ session[last.who] =
          [logged_in |-> TRUE, user |-> "customer1", role |-> "Customer"]
    /\ file.kind = "json"
    /\ Stored["customer1"].role = "Customer"

-----------------------------------------------------------------------------
(* The QR code of the login form *)

(* C20: seed disclosure before authentication.  A rerun or a Login run whose
   username field names an account of the store displays the provisioning
   URI of that account, and the secret in the URI is the secret users.json
   holds for the account, whatever the password and OTP fields contain,
   whatever the outcome of the Login and whether or not the session is
   authenticated; for an empty or unknown name no URI is displayed. *)
C20_SeedDisclosed ==
    [][RanLoad =>
          IF last'.username # "" /\ last'.username \in DOMAIN Loaded
          THEN /\ last'.uri =
                     ProvisioningUri(last'.username, Loaded[last'.username].secret)
               /\ file'.kind = "json"
               /\ last'.uri.secret = json_load(file'.text)[last'.username].secret
          ELSE last'.uri = NoUri]_vars

\* a session that is not authenticated has typed customer1 with customer2's
\* password: the Login is refused and the page shows customer1's secret
C20_Witness ==
    /\ last.op = "Login"
    /\ last.outcome = "InvalidCredentials"
    /\ last.username = "customer1"
    /\ last.password = "wallet321"
    /\ ~session[last.who].logged_in
    /\ file.kind = "json"
    /\ Stored["customer1"].secret = 3
    /\ last.uri = ProvisioningUri("customer1", 3)

====
